---------------------------- MODULE Spec2Model ----------------------------
(***************************************************************************)
(* A model of src/lib/session-recorder.ts: the SessionRecorder instance,   *)
(* the calls made on it (start, stop, cancel, playAssistantBase64), and    *)
(* the browser platform it drives (getUserMedia, AudioContext,             *)
(* MediaRecorder and their events).                                        *)
(*                                                                         *)
(* Every start() call that passes the guard of line 58 is an attempt,      *)
(* numbered 1, 2, ...  The platform objects an attempt creates (its        *)
(* capture stream, its AudioContext with destination and source node, its  *)
(* MediaRecorder) carry the attempt's number; the instance's five handle   *)
(* fields hold 0 (null) or the number of the attempt whose object they     *)
(* refer to.  JavaScript runs one callback at a time, so every action is   *)
(* the code between two suspension points (await, event delivery).         *)
(*                                                                         *)
(* The module also models src/lib/audio-bridge.ts (getModule and the three *)
(* operations it backs) and src/scripts/create-pr.mjs (main, step by       *)
(* step); they share no state with the SessionRecorder and have            *)
(* specifications of their own.                                            *)
(***************************************************************************)
EXTENDS Integers, Sequences, FiniteSets, TLC

\* Bounds of the model.
MaxAttempts == 2      \* start() calls that pass the guard of line 58
MaxChunks == 1        \* non-empty chunks the encoders deliver in a run
MaxClock == 3         \* last reading of the clock, in half milliseconds
MaxPlays == 1         \* playAssistantBase64 calls that pass the guard of line 118
MaxPulls == 2         \* open pull requests the list request can return

Attempts == 1..MaxAttempts
Null == 0

\* SUPPORTED_MIME_TYPES, in priority order.
SUPPORTED_MIME_TYPES ==
  << "audio/webm;codecs=opus", "audio/webm", "audio/ogg;codecs=opus", "audio/ogg" >>

\* The initial value of the mimeType field, and the last fallback of line 98.
DefaultMimeType == "audio/webm"

\* A platform is the set of formats MediaRecorder.isTypeSupported accepts,
\* the set of formats for which the probe throws, and the mimeType a
\* MediaRecorder built without options reports ("" when it reports none).
\* The lifecycle is checked on a platform that supports the two WebM
\* candidates.
WebmPlatform ==
  [supported |-> {"audio/webm;codecs=opus", "audio/webm"}, throws |-> {},
   default |-> "audio/webm;codecs=opus"]

\* The candidates as a set.
Candidates == {SUPPORTED_MIME_TYPES[i] : i \in DOMAIN SUPPORTED_MIME_TYPES}

\* Every platform as far as format negotiation can tell: each candidate is
\* accepted, refused, or makes the probe throw, and a MediaRecorder built
\* without options reports no format or one outside the candidates.
Platforms ==
  [supported : SUBSET Candidates, throws : SUBSET Candidates, default : {"", "audio/mp4"}]

\* The module locations getModule() tries, in order (audio-bridge.ts line 33).
ModuleCandidates == << "../src/lib/audio.js", "../src/lib/audio" >>

\* The operations the bridge exports, each named like the helper it forwards to.
BridgeOps == {"calibrateRMS", "recordUntilSilence", "blobToBase64"}

\* What import() of one candidate can do: fail, or resolve with a module
\* that exports some of the helpers.
Unresolvable == [resolves |-> FALSE, exports |-> {}]
Resolutions == {Unresolvable} \cup [resolves : {TRUE}, exports : SUBSET BridgeOps]

\* Every build: what each candidate resolves to.
Builds == [DOMAIN ModuleCandidates -> Resolutions]

\* The build the bridge was written for: the first candidate resolves with
\* all helpers.
LegacyBuild == [i \in DOMAIN ModuleCandidates |-> [resolves |-> TRUE, exports |-> BridgeOps]]

\* The messages of the bridge's own errors (lines 51-52 and 66).
HelpersUnavailable ==
  "Audio helpers unavailable after attempting legacy module imports. Verify build includes src/lib/audio.js."
RecordingUnavailable == "Audio recording unavailable"

\* The variables main() requires, in the order of lines 106-114.
RequiredEnv ==
  << "GITHUB_TOKEN", "GITHUB_API_URL", "GIT_REPO_OWNER", "GIT_REPO_NAME", "PR_BASE",
     "PR_HEAD", "PR_TITLE", "PR_BODY", "GIT_REMOTE_NAME" >>

\* The git commands main() runs, in the order of lines 119-155.
GitSteps ==
  << "git-root", "git-status-check", "git-current-branch", "git-remote-url",
     "git-fetch-base", "git-ensure-ancestor", "git-base-commit", "git-head-commit",
     "git-remote-head-check", "git-push-head" >>

\* The synchronous steps of main(), in order: the last one sends the list
\* request.
ScriptSteps == RequiredEnv \o GitSteps \o << "github-list-pr:request" >>

\* The step that follows a synchronous step other than the last.
StepAfter(step) ==
  ScriptSteps[(CHOOSE i \in DOMAIN ScriptSteps : ScriptSteps[i] = step) + 1]

Range(seq) == {seq[i] : i \in DOMAIN seq}

\* What a required variable can hold: nothing, only white space, one of
\* 'default', 'changeme', 'placeholder' in any case, or a usable value.
EnvValues == {"undefined", "blank", "placeholder", "valid"}

AllValid == [name \in Range(RequiredEnv) |-> "valid"]

\* Every environment with at most one unusable variable.
Environments ==
  {[AllValid EXCEPT ![name] = v] : name \in Range(RequiredEnv), v \in EnvValues}

\* The lists of open pull requests the list request can return: sequences
\* of distinct numbers.
PullLists ==
  {l \in UNION {[1..n -> 1..MaxPulls] : n \in 0..MaxPulls} :
     \A i, j \in DOMAIN l : i # j => l[i] # l[j]}

\* The parsed bodies of an OK list response: an array of pull requests, or
\* a value that is not an array.
ListBodies == [isArray : {TRUE}, pulls : PullLists] \cup {[isArray |-> FALSE, pulls |-> << >>]}

NoBody == [isArray |-> FALSE, pulls |-> << >>]

\* The guarded sub-steps of cleanup(), each of which may throw.
TeardownSteps == {"disconnect", "tracks", "close"}

\* The sub-steps that throw in one run of cleanup(): none, any one, or all.
Throws == {{}, {"disconnect"}, {"tracks"}, {"close"}, TeardownSteps}

VARIABLES
  hasWindow,      \* typeof window !== 'undefined'
  platform,       \* the platform the page runs on
  now,            \* performance.now(), in half milliseconds
  \* the instance's fields
  audioCtx, destination, micStream, micSource, recorder,
  chunks, mimeType, startedAt,
  \* the start() calls
  pcStart,        \* attempt -> "idle" | "gum" | "resume" | "ok" | "failed"
  \* the platform's objects, by attempt
  stream,         \* whether getUserMedia has resolved with the attempt's stream
  trackStops,     \* calls of track.stop() on the stream's track
  ctx,            \* whether the attempt's AudioContext has been created
  ctxCloses,      \* calls of close() on the AudioContext
  rec,            \* "none" | "inactive" | "recording": the MediaRecorder's state
  recMime,        \* the format negotiated for the MediaRecorder
  recOptions,     \* the mimeType option the MediaRecorder was constructed with, "" without options
  began,          \* the clock reading of line 100 when the attempt's recording began, 0 before
  recQ,           \* "idle" | "data" | "stop" | "done": events owed after inactivation
  delivered,      \* non-empty chunks the MediaRecorder has delivered
  onstop,         \* whether stop() has set recorder.onstop
  promise,        \* "none" | "pending" | "resolved": the promise of the stop() that set onstop
  result,         \* the value that promise was resolved with
  \* playAssistantBase64
  pcPlay,         \* "idle" | "resume" | "decode" | "playing"
  plays,          \* calls that passed the guard of line 118
  sources,        \* buffer sources started by playAudioBuffer
  \* what the calls returned
  teardownCalled, \* whether stop() or cancel() has been called
  ret,            \* what the step just taken returned to its caller, if it was a call
  \* src/lib/audio-bridge.ts
  modules,        \* candidate -> whether import() of it resolves, and what the module exports
  bridgeCall,     \* the exported operation called last, "none" before the first call
  bridgePc,       \* "idle" | "import" | "helper" | "returned" | "threw"
  candidate,      \* the index of the candidate being imported
  bridgeOut,      \* what the call returned or threw
  \* src/scripts/create-pr.mjs
  processEnv,     \* required variable -> "undefined" | "blank" | "placeholder" | "valid"
  scriptPc,       \* the step to run next or the request awaited, "exited" at the end
  executed,       \* the steps that have succeeded, in order
  failedStep,     \* the step that failed, "" while none has
  requests,       \* the HTTP requests issued, in order
  existing,       \* the parsed body of the list response
  exitCode        \* -1 while the script runs, then the process's exit code

fields == << audioCtx, destination, micStream, micSource, recorder, chunks, mimeType, startedAt >>
env == << hasWindow, platform >>
teardownCounts == << stream, trackStops, ctx, ctxCloses >>
encoder == << rec, recMime, recOptions, recQ, delivered, onstop, promise, result >>
playback == << pcPlay, plays, sources >>
bridge == << modules, bridgeCall, bridgePc, candidate, bridgeOut >>
sessionRecorder == << env, now, fields, pcStart, teardownCounts, encoder, began, playback, teardownCalled, ret >>
script == << processEnv, scriptPc, executed, failedStep, requests, existing, exitCode >>
vars == << sessionRecorder, bridge, script >>

\* SessionRecordingResult; NoResult stands for no value at all.
NoResult == [chunks |-> << >>, mimeType |-> "", durationMs |-> -1]
\* The empty result tagged with the field's initial format instead of the
\* negotiated one.
EmptyResultInitialMime(mime) == [chunks |-> << >>, mimeType |-> "audio/webm", durationMs |-> 0]

EmptyResult(mime) == [chunks |-> << >>, mimeType |-> mime, durationMs |-> 0]

Ret(op, out) == [op |-> op, out |-> out, res |-> NoResult]

\* The step just taken was not a call: an await resumed, or an event fired.
NoRet == Ret("none", "none")

Max(a, b) == IF a >= b THEN a ELSE b

\* Math.round of a number of half milliseconds, in milliseconds: halves round up.
MathRound(halfMs) == (halfMs + 1) \div 2

\* No bridge operation has been called, in one of the builds in B.
BridgeInitOn(B) ==
  /\ modules \in B
  /\ bridgeCall = "none"
  /\ bridgePc = "idle"
  /\ candidate = 0
  /\ bridgeOut = [kind |-> "none", detail |-> ""]

\* The script before main() runs, in one of the environments in E.
ScriptInitOn(E) ==
  /\ processEnv \in E
  /\ scriptPc = ScriptSteps[1]
  /\ executed = << >>
  /\ failedStep = ""
  /\ requests = << >>
  /\ existing = NoBody
  /\ exitCode = -1

\* A new SessionRecorder (lines 47-54) on one of the platforms in P.
InstanceInitOn(P) ==
  /\ hasWindow \in BOOLEAN
  /\ platform \in P
  /\ now = 1
  /\ audioCtx = Null /\ destination = Null /\ micStream = Null
  /\ micSource = Null /\ recorder = Null
  /\ chunks = << >>
  /\ mimeType = DefaultMimeType
  /\ startedAt = 0
  /\ pcStart = [a \in Attempts |-> "idle"]
  /\ stream = [a \in Attempts |-> FALSE]
  /\ trackStops = [a \in Attempts |-> 0]
  /\ ctx = [a \in Attempts |-> FALSE]
  /\ ctxCloses = [a \in Attempts |-> 0]
  /\ rec = [a \in Attempts |-> "none"]
  /\ recMime = [a \in Attempts |-> ""]
  /\ recOptions = [a \in Attempts |-> ""]
  /\ began = [a \in Attempts |-> 0]
  /\ recQ = [a \in Attempts |-> "idle"]
  /\ delivered = [a \in Attempts |-> 0]
  /\ onstop = [a \in Attempts |-> FALSE]
  /\ promise = [a \in Attempts |-> "none"]
  /\ result = [a \in Attempts |-> NoResult]
  /\ pcPlay = "idle"
  /\ plays = 0
  /\ sources = 0
  /\ teardownCalled = FALSE
  /\ ret = NoRet

\* A new SessionRecorder on one of the platforms in P, in the build the
\* bridge was written for.
InitOn(P) == InstanceInitOn(P) /\ BridgeInitOn({LegacyBuild}) /\ ScriptInitOn({AllValid})

Init == InitOn({WebmPlatform})

\* A new SessionRecorder in a browser.
InitInBrowser == Init /\ hasWindow

-----------------------------------------------------------------------------
(* cleanup(), lines 187-220 *)

\* Lines 197-204: track.stop() is called on the track of the held stream.
\* The call is in a try block of its own: that it throws changes nothing
\* of what follows.
TrackStopsAfter(ms, thr) ==
  IF ms # Null THEN [trackStops EXCEPT ![ms] = @ + 1] ELSE trackStops

\* Lines 205-212: close() is called on the held context, in a try block of
\* its own.
CtxClosesAfter(ac, thr) ==
  IF ac # Null THEN [ctxCloses EXCEPT ![ac] = @ + 1] ELSE ctxCloses

\* The reset of lines 213-219 without line 217: the encoder handle is kept.
ResetFieldsKeepsRecorder(thr) ==
  /\ audioCtx' = Null
  /\ destination' = Null
  /\ micStream' = Null
  /\ micSource' = Null
  /\ recorder' = recorder
  /\ chunks' = << >>
  /\ startedAt' = 0

\* Lines 213-219: the handles and the session's data are reset, whichever
\* of the sub-steps before threw.
ResetFields(thr) ==
  /\ audioCtx' = Null
  /\ destination' = Null
  /\ micStream' = Null
  /\ micSource' = Null
  /\ recorder' = Null
  /\ chunks' = << >>
  /\ startedAt' = 0

\* cleanup() without its try blocks: the first sub-step that throws ends it,
\* so that the later sub-steps and the reset do not run.
CleanupUnguarded(ac, ms, thr) ==
  /\ trackStops' = IF "disconnect" \in thr THEN trackStops ELSE TrackStopsAfter(ms, thr)
  /\ ctxCloses' = IF thr \cap {"disconnect", "tracks"} # {} THEN ctxCloses ELSE CtxClosesAfter(ac, thr)
  /\ IF thr = {}
       THEN ResetFields(thr)
       ELSE UNCHANGED << audioCtx, destination, micStream, micSource, recorder, chunks, startedAt >>

\* cleanup() run on the handles ac (audioCtx) and ms (micStream), with the
\* sub-steps in thr throwing (the disconnect of lines 189-196 changes no
\* state of the model).
Cleanup(ac, ms, thr) ==
  /\ trackStops' = TrackStopsAfter(ms, thr)
  /\ ctxCloses' = CtxClosesAfter(ac, thr)
  /\ ResetFields(thr)

\* cleanup() on the instance's current handles.
CleanupThis(thr) == Cleanup(audioCtx, micStream, thr)

-----------------------------------------------------------------------------
(* start(), lines 56-115 *)

\* Line 58 with the encoder's state compared against the wrong value.
AlreadyRecordingWrongState == recorder # Null /\ rec[recorder] = "inactive"

\* Line 58.
AlreadyRecording == recorder # Null /\ rec[recorder] = "recording"

\* The attempt a start() call that passes the guard becomes.
NextAttempt == CHOOSE a \in Attempts : pcStart[a] = "idle" /\ \A b \in 1..(a - 1) : pcStart[b] # "idle"

\* Line 57: outside a browser start() throws before anything else.
StartUnavailable ==
  /\ ~hasWindow
  /\ ret' = Ret("start", "Unavailable")
  /\ UNCHANGED << env, bridge, script, began, now, fields, pcStart, teardownCounts, encoder, playback, teardownCalled >>

\* Lines 58-61: start() while recording logs and returns.
StartNoop ==
  /\ hasWindow
  /\ AlreadyRecording
  /\ ret' = Ret("start", "noop")
  /\ UNCHANGED << env, bridge, script, began, now, fields, pcStart, teardownCounts, encoder, playback, teardownCalled >>

\* Lines 63-65: start() asks for the capture device and suspends.
StartCall ==
  /\ hasWindow
  /\ ~AlreadyRecording
  /\ \E a \in Attempts : pcStart[a] = "idle"
  /\ pcStart' = [pcStart EXCEPT ![NextAttempt] = "gum"]
  /\ ret' = Ret("start", "suspended")
  /\ UNCHANGED << env, bridge, script, began, now, fields, teardownCounts, encoder, playback, teardownCalled >>

\* Lines 65, 110-113: getUserMedia rejects (or navigator.mediaDevices is
\* missing); the catch block runs cleanup() and rethrows.
GumReject(a, thr) ==
  /\ pcStart[a] = "gum"
  /\ CleanupThis(thr)
  /\ pcStart' = [pcStart EXCEPT ![a] = "failed"]
  /\ ret' = NoRet
  /\ UNCHANGED << env, bridge, script, began, now, mimeType, stream, ctx, encoder, playback, teardownCalled >>

\* Lines 65-68: getUserMedia resolves with the stream, the AudioContext is
\* created and start() suspends in ctx.resume().
GumResolve(a) ==
  /\ pcStart[a] = "gum"
  /\ stream' = [stream EXCEPT ![a] = TRUE]
  /\ ctx' = [ctx EXCEPT ![a] = TRUE]
  /\ pcStart' = [pcStart EXCEPT ![a] = "resume"]
  /\ ret' = NoRet
  /\ UNCHANGED << env, bridge, script, began, now, fields, trackStops, ctxCloses, encoder,
                  playback, teardownCalled >>

\* Lines 65-67, 110-113: getUserMedia resolves and new AudioContext() throws.
CtxCreateThrows(a, thr) ==
  /\ pcStart[a] = "gum"
  /\ stream' = [stream EXCEPT ![a] = TRUE]
  /\ CleanupThis(thr)
  /\ pcStart' = [pcStart EXCEPT ![a] = "failed"]
  /\ ret' = NoRet
  /\ UNCHANGED << env, bridge, script, began, now, mimeType, ctx, encoder, playback, teardownCalled >>

\* Lines 68, 110-113: ctx.resume() rejects.
ResumeReject(a, thr) ==
  /\ pcStart[a] = "resume"
  /\ CleanupThis(thr)
  /\ pcStart' = [pcStart EXCEPT ![a] = "failed"]
  /\ ret' = NoRet
  /\ UNCHANGED << env, bridge, script, began, now, mimeType, stream, ctx, encoder, playback, teardownCalled >>

\* Lines 70-91, 110-113: building the graph (createMediaStreamDestination,
\* createMediaStreamSource, connect) or constructing the MediaRecorder throws,
\* before any field is assigned.
GraphThrows(a, thr) ==
  /\ pcStart[a] = "resume"
  /\ CleanupThis(thr)
  /\ pcStart' = [pcStart EXCEPT ![a] = "failed"]
  /\ ret' = NoRet
  /\ UNCHANGED << env, bridge, script, began, now, mimeType, stream, ctx, encoder, playback, teardownCalled >>

\* Lines 77-86: the probe of one candidate; a probe that throws is caught
\* and counts as unsupported.
IsTypeSupported(p, format) ==
  IF format \in p.throws THEN FALSE ELSE format \in p.supported

\* The search of lines 75-87 keeping the last candidate the platform
\* supports instead of the first.
RECURSIVE FindSupportedLast(_, _)
FindSupportedLast(candidates, p) ==
  IF candidates = << >> THEN ""
  ELSE LET later == FindSupportedLast(Tail(candidates), p)
       IN IF later # "" THEN later
          ELSE IF IsTypeSupported(p, Head(candidates)) THEN Head(candidates)
          ELSE ""

\* Lines 75-87: the first candidate the platform supports, "" when none.
RECURSIVE FindSupported(_, _)
FindSupported(candidates, p) ==
  IF candidates = << >> THEN ""
  ELSE IF IsTypeSupported(p, Head(candidates)) THEN Head(candidates)
  ELSE FindSupported(Tail(candidates), p)

\* Line 98: supportedMime || recorder.mimeType || 'audio/webm'.
NegotiatedMime(p) ==
  LET supportedMime == FindSupported(SUPPORTED_MIME_TYPES, p)
  IN IF supportedMime # "" THEN supportedMime
     ELSE IF p.default # "" THEN p.default
     ELSE DefaultMimeType

\* Lines 93-100: the fields are assigned from the attempt's locals.
AssignFields(a) ==
  /\ audioCtx' = a
  /\ destination' = a
  /\ micStream' = a
  /\ micSource' = a
  /\ recorder' = a
  /\ mimeType' = NegotiatedMime(platform)
  /\ chunks' = << >>
  /\ startedAt' = now

\* Lines 70-109: ctx.resume() resolves, the graph and the encoder are built,
\* the fields are assigned and recording begins.
StartFinish(a) ==
  /\ pcStart[a] = "resume"
  /\ AssignFields(a)
  /\ rec' = [rec EXCEPT ![a] = "recording"]
  /\ recMime' = [recMime EXCEPT ![a] = NegotiatedMime(platform)]
  /\ recOptions' = [recOptions EXCEPT ![a] = FindSupported(SUPPORTED_MIME_TYPES, platform)]
  /\ began' = [began EXCEPT ![a] = now]
  /\ pcStart' = [pcStart EXCEPT ![a] = "ok"]
  /\ ret' = NoRet
  /\ UNCHANGED << env, bridge, script, now, teardownCounts, recQ, delivered, onstop, promise, result,
                  playback, teardownCalled >>

\* Lines 93-113: recorder.start() throws after the fields were assigned; the
\* catch block runs cleanup() on the handles just assigned.
EncoderStartThrows(a, thr) ==
  /\ pcStart[a] = "resume"
  /\ mimeType' = NegotiatedMime(platform)
  /\ Cleanup(a, a, thr)
  /\ rec' = [rec EXCEPT ![a] = "inactive"]
  /\ recMime' = [recMime EXCEPT ![a] = NegotiatedMime(platform)]
  /\ recOptions' = [recOptions EXCEPT ![a] = FindSupported(SUPPORTED_MIME_TYPES, platform)]
  /\ pcStart' = [pcStart EXCEPT ![a] = "failed"]
  /\ ret' = NoRet
  /\ UNCHANGED << env, bridge, script, began, now, stream, ctx, recQ, delivered, onstop, promise, result,
                  playback, teardownCalled >>

-----------------------------------------------------------------------------
(* stop(), lines 130-154 *)

\* Line 131.
NotStarted == recorder = Null

\* Line 133.
EncoderInactive == rec[recorder] = "inactive"

\* stop() without an encoder degrading to the empty result instead of throwing.
StopNotStartedEmptyResult ==
  /\ NotStarted
  /\ ret' = [op |-> "stop", out |-> "result", res |-> EmptyResult(mimeType)]
  /\ teardownCalled' = TRUE
  /\ UNCHANGED << env, bridge, script, began, now, fields, pcStart, teardownCounts, encoder, playback >>

\* Line 131: stop() without an encoder throws 'Recorder not started'.
StopNotStarted ==
  /\ NotStarted
  /\ ret' = Ret("stop", "NotStarted")
  /\ teardownCalled' = TRUE
  /\ UNCHANGED << env, bridge, script, began, now, fields, pcStart, teardownCounts, encoder, playback >>

\* Lines 133-135: stop() on an inactive encoder returns an empty result.
StopInactive ==
  /\ ~NotStarted
  /\ EncoderInactive
  /\ ret' = [op |-> "stop", out |-> "result", res |-> EmptyResult(mimeType)]
  /\ teardownCalled' = TRUE
  /\ UNCHANGED << env, bridge, script, began, now, fields, pcStart, teardownCounts, encoder, playback >>

\* Lines 137-147: stop() sets onstop, asks the encoder to stop and returns
\* the pending promise; the encoder is inactive from then on and owes its
\* last dataavailable event and its stop event.
StopRequest ==
  /\ ~NotStarted
  /\ ~EncoderInactive
  /\ onstop' = [onstop EXCEPT ![recorder] = TRUE]
  /\ promise' = [promise EXCEPT ![recorder] = "pending"]
  /\ rec' = [rec EXCEPT ![recorder] = "inactive"]
  /\ recQ' = [recQ EXCEPT ![recorder] = "data"]
  /\ ret' = Ret("stop", "pending")
  /\ teardownCalled' = TRUE
  /\ UNCHANGED << env, bridge, script, began, now, fields, pcStart, teardownCounts, recMime, recOptions, delivered, result, playback >>

\* Lines 137-152: recorder.stop() throws; stop() runs cleanup() and resolves
\* with an empty result.
StopRequestThrows(thr) ==
  /\ ~NotStarted
  /\ ~EncoderInactive
  /\ onstop' = [onstop EXCEPT ![recorder] = TRUE]
  /\ CleanupThis(thr)
  /\ promise' = [promise EXCEPT ![recorder] = "resolved"]
  /\ result' = [result EXCEPT ![recorder] = EmptyResult(mimeType)]
  /\ ret' = [op |-> "stop", out |-> "result", res |-> EmptyResult(mimeType)]
  /\ teardownCalled' = TRUE
  /\ UNCHANGED << env, bridge, script, began, now, mimeType, pcStart, stream, ctx, rec, recMime, recOptions, recQ, delivered, playback >>

\* Lines 141-143 with the difference truncated instead of rounded.
DurationMsTruncated == IF startedAt # 0 THEN Max(0, (now - startedAt) \div 2) ELSE 0

\* Line 141.
DurationMs == IF startedAt # 0 THEN Max(0, MathRound(now - startedAt)) ELSE 0

\* The handler of lines 139-144 without line 144: it never resolves.
OnStopNeverResolves(a, thr) ==
  /\ CleanupThis(thr)
  /\ UNCHANGED << promise, result >>

\* Lines 139-144: the handler stop() left in recorder.onstop, run for
\* encoder a: it builds the result from the instance's fields, runs
\* cleanup() and resolves the promise of its stop() call (resolving a
\* promise a second time changes nothing).
OnStop(a, thr) ==
  /\ CleanupThis(thr)
  /\ IF promise[a] = "pending"
       THEN /\ promise' = [promise EXCEPT ![a] = "resolved"]
            /\ result' = [result EXCEPT ![a] =
                 [chunks |-> chunks, mimeType |-> mimeType, durationMs |-> DurationMs]]
       ELSE UNCHANGED << promise, result >>

-----------------------------------------------------------------------------
(* cancel(), lines 156-166 *)

\* Line 157.
EncoderActive == recorder # Null /\ rec[recorder] # "inactive"

\* cancel() also abandoning the start() calls in flight.
CancelAbortsStart(thr) ==
  /\ IF EncoderActive
       THEN /\ rec' = [rec EXCEPT ![recorder] = "inactive"]
            /\ recQ' = [recQ EXCEPT ![recorder] = "data"]
       ELSE UNCHANGED << rec, recQ >>
  /\ CleanupThis(thr)
  /\ pcStart' = [a \in Attempts |->
                   IF pcStart[a] \in {"gum", "resume"} THEN "failed" ELSE pcStart[a]]
  /\ ret' = Ret("cancel", "returned")
  /\ teardownCalled' = TRUE
  /\ UNCHANGED << env, bridge, script, began, now, mimeType, stream, ctx, recMime, recOptions, delivered, onstop, promise, result, playback >>

\* Lines 157-165, with recorder.stop() accepted or not needed.
Cancel(thr) ==
  /\ IF EncoderActive
       THEN /\ rec' = [rec EXCEPT ![recorder] = "inactive"]
            /\ recQ' = [recQ EXCEPT ![recorder] = "data"]
       ELSE UNCHANGED << rec, recQ >>
  /\ CleanupThis(thr)
  /\ ret' = Ret("cancel", "returned")
  /\ teardownCalled' = TRUE
  /\ UNCHANGED << env, bridge, script, began, now, mimeType, pcStart, stream, ctx, recMime, recOptions, delivered, onstop, promise, result, playback >>

\* Lines 157-165, with recorder.stop() throwing: the error is logged.
CancelStopThrows(thr) ==
  /\ EncoderActive
  /\ CleanupThis(thr)
  /\ ret' = Ret("cancel", "returned")
  /\ teardownCalled' = TRUE
  /\ UNCHANGED << env, bridge, script, began, now, mimeType, pcStart, stream, ctx, encoder, playback >>

-----------------------------------------------------------------------------
(* The MediaRecorder's events *)

\* Lines 102-106: a dataavailable event of encoder a; a chunk with a size is
\* appended to the instance's chunk list.
OnDataAvailable(a, size) ==
  IF size > 0
    THEN /\ chunks' = Append(chunks, << a, delivered[a] + 1 >>)
         /\ delivered' = [delivered EXCEPT ![a] = @ + 1]
    ELSE UNCHANGED << chunks, delivered >>

\* The non-empty chunks delivered so far.
RECURSIVE SumTo(_, _)
SumTo(f, n) == IF n = 0 THEN 0 ELSE f[n] + SumTo(f, n - 1)

TotalDelivered == SumTo(delivered, MaxAttempts)

\* A dataavailable event while the encoder records.
DataWhileRecording(a) ==
  /\ rec[a] = "recording"
  /\ TotalDelivered < MaxChunks
  /\ OnDataAvailable(a, 1)
  /\ ret' = NoRet
  /\ UNCHANGED << env, bridge, script, began, now, audioCtx, destination, micStream, micSource, recorder,
                  mimeType, startedAt, pcStart, teardownCounts, rec, recMime, recOptions, recQ,
                  onstop, promise, result, playback, teardownCalled >>

\* The last dataavailable event of an encoder that has been inactivated.
DataAtStop(a, size) ==
  /\ recQ[a] = "data"
  /\ size > 0 => TotalDelivered < MaxChunks
  /\ OnDataAvailable(a, size)
  /\ recQ' = [recQ EXCEPT ![a] = "stop"]
  /\ ret' = NoRet
  /\ UNCHANGED << env, bridge, script, began, now, audioCtx, destination, micStream, micSource, recorder,
                  mimeType, startedAt, pcStart, teardownCounts, rec, recMime, recOptions,
                  onstop, promise, result, playback, teardownCalled >>

\* The stop event of an encoder on which stop() has set onstop.
StopEvent(a, thr) ==
  /\ recQ[a] = "stop"
  /\ onstop[a]
  /\ recQ' = [recQ EXCEPT ![a] = "done"]
  /\ OnStop(a, thr)
  /\ ret' = NoRet
  /\ UNCHANGED << env, bridge, script, began, now, mimeType, pcStart, stream, ctx, rec, recMime, recOptions, delivered, onstop,
                  playback, teardownCalled >>

\* The stop event of an encoder without an onstop handler.
StopEventUnhandled(a) ==
  /\ recQ[a] = "stop"
  /\ ~onstop[a]
  /\ recQ' = [recQ EXCEPT ![a] = "done"]
  /\ ret' = NoRet
  /\ UNCHANGED << env, bridge, script, began, now, fields, pcStart, teardownCounts, rec, recMime, recOptions, delivered,
                  onstop, promise, result, playback, teardownCalled >>

\* The platform inactivates a recording encoder by itself (an encoder error,
\* or the tracks of the recorded stream ending): line 133 reads the state
\* this leaves.
EncoderInactivated(a) ==
  /\ rec[a] = "recording"
  /\ rec' = [rec EXCEPT ![a] = "inactive"]
  /\ recQ' = [recQ EXCEPT ![a] = "data"]
  /\ ret' = NoRet
  /\ UNCHANGED << env, bridge, script, began, now, fields, pcStart, teardownCounts, recMime, recOptions, delivered,
                  onstop, promise, result, playback, teardownCalled >>

\* performance.now() advances.
Tick ==
  /\ now < MaxClock
  /\ now' = now + 1
  /\ ret' = NoRet
  /\ UNCHANGED << env, bridge, script, began, fields, pcStart, teardownCounts, encoder, playback, teardownCalled >>

-----------------------------------------------------------------------------
(* playAssistantBase64() and playAudioBuffer(), lines 117-128 and 168-185 *)

\* Lines 118 and 169.
NoGraph == audioCtx = Null \/ destination = Null

\* Lines 118-121: without a graph the call throws 'Recorder not started'.
PlayNotStarted ==
  /\ pcPlay = "idle"
  /\ NoGraph
  /\ ret' = Ret("play", "NotStarted")
  /\ UNCHANGED << env, bridge, script, began, now, fields, pcStart, teardownCounts, encoder, playback, teardownCalled >>

\* Line 122: the call suspends in audioCtx.resume().
PlayCall ==
  /\ pcPlay = "idle"
  /\ ~NoGraph
  /\ plays < MaxPlays
  /\ plays' = plays + 1
  /\ pcPlay' = "resume"
  /\ ret' = Ret("play", "suspended")
  /\ UNCHANGED << env, bridge, script, began, now, fields, pcStart, teardownCounts, encoder, sources, teardownCalled >>

\* Line 122: audioCtx.resume() rejects and so does the call.
PlayResumeReject ==
  /\ pcPlay = "resume"
  /\ pcPlay' = "idle"
  /\ ret' = Ret("play", "PlatformOperationFailed")
  /\ UNCHANGED << env, bridge, script, began, now, fields, pcStart, teardownCounts, encoder, plays, sources, teardownCalled >>

\* Lines 124, 223-227: atob is missing, or rejects the payload.
PlayBase64Throws ==
  /\ pcPlay = "resume"
  /\ pcPlay' = "idle"
  /\ ret' = Ret("play", "Base64Failed")
  /\ UNCHANGED << env, bridge, script, began, now, fields, pcStart, teardownCounts, encoder, plays, sources, teardownCalled >>

\* Lines 123-125: after resume() the payload is converted and
\* this.audioCtx.decodeAudioData is called: a TypeError when the field is
\* null by then, a suspension otherwise.
PlayDecode ==
  /\ pcPlay = "resume"
  /\ IF audioCtx = Null
       THEN /\ pcPlay' = "idle"
            /\ ret' = Ret("play", "TypeError")
       ELSE /\ pcPlay' = "decode"
            /\ ret' = NoRet
  /\ UNCHANGED << env, bridge, script, began, now, fields, pcStart, teardownCounts, encoder, plays, sources, teardownCalled >>

\* Line 125: decodeAudioData rejects and so does the call.
PlayDecodeReject ==
  /\ pcPlay = "decode"
  /\ pcPlay' = "idle"
  /\ ret' = Ret("play", "PlatformOperationFailed")
  /\ UNCHANGED << env, bridge, script, began, now, fields, pcStart, teardownCounts, encoder, plays, sources, teardownCalled >>

\* Lines 127, 169-179: playAudioBuffer throws 'Recorder not started' without
\* a graph, and otherwise connects and starts a buffer source.
PlayAudioBuffer ==
  /\ pcPlay = "decode"
  /\ IF NoGraph
       THEN /\ pcPlay' = "idle"
            /\ ret' = Ret("play", "NotStarted")
            /\ UNCHANGED sources
       ELSE /\ pcPlay' = "playing"
            /\ sources' = sources + 1
            /\ ret' = NoRet
  /\ UNCHANGED << env, bridge, script, began, now, fields, pcStart, teardownCounts, encoder, plays, teardownCalled >>

\* Lines 169-183: source.start() throws and the call rejects.
PlaySourceStartThrows ==
  /\ pcPlay = "decode"
  /\ ~NoGraph
  /\ pcPlay' = "idle"
  /\ ret' = Ret("play", "PlatformOperationFailed")
  /\ UNCHANGED << env, bridge, script, began, now, fields, pcStart, teardownCounts, encoder, plays, sources, teardownCalled >>

\* Line 176: the source ends and the call resolves with the duration.
PlayEnded ==
  /\ pcPlay = "playing"
  /\ pcPlay' = "idle"
  /\ ret' = Ret("play", "played")
  /\ UNCHANGED << env, bridge, script, began, now, fields, pcStart, teardownCounts, encoder, plays, sources, teardownCalled >>

-----------------------------------------------------------------------------
(* The specifications *)

\* The calls on the instance and the platform's answers, without playback.
Next ==
  \/ StartUnavailable
  \/ StartNoop
  \/ StartCall
  \/ \E a \in Attempts : GumResolve(a)
  \/ \E a \in Attempts, thr \in Throws : GumReject(a, thr)
  \/ \E a \in Attempts, thr \in Throws : CtxCreateThrows(a, thr)
  \/ \E a \in Attempts, thr \in Throws : ResumeReject(a, thr)
  \/ \E a \in Attempts, thr \in Throws : GraphThrows(a, thr)
  \/ \E a \in Attempts : StartFinish(a)
  \/ \E a \in Attempts, thr \in Throws : EncoderStartThrows(a, thr)
  \/ \E thr \in Throws : Cancel(thr)
  \/ StopNotStarted
  \/ StopInactive
  \/ StopRequest
  \/ \E thr \in Throws : StopRequestThrows(thr)
  \/ \E thr \in Throws : CancelStopThrows(thr)
  \/ \E a \in Attempts : DataWhileRecording(a)
  \/ \E a \in Attempts, size \in {0, 1} : DataAtStop(a, size)
  \/ \E a \in Attempts, thr \in Throws : StopEvent(a, thr)
  \/ \E a \in Attempts : StopEventUnhandled(a)
  \/ \E a \in Attempts : EncoderInactivated(a)

Spec == Init /\ [][Next]_vars

\* The steps that bear on the promise of a stop(): sessions are started,
\* stopped and cancelled, and inactive encoders deliver their events.
LiveNext ==
  \/ StartCall
  \/ \E a \in Attempts : GumResolve(a)
  \/ \E a \in Attempts : StartFinish(a)
  \/ \E thr \in Throws : Cancel(thr)
  \/ StopInactive
  \/ StopRequest
  \/ \E thr \in Throws : StopRequestThrows(thr)
  \/ \E a \in Attempts, size \in {0, 1} : DataAtStop(a, size)
  \/ \E a \in Attempts, thr \in Throws : StopEvent(a, thr)
  \/ \E a \in Attempts : StopEventUnhandled(a)

\* The instance on a platform that delivers the events it owes: once an
\* encoder is inactive its last dataavailable event and its stop event
\* eventually fire.
SpecLive ==
  /\ InitInBrowser
  /\ [][LiveNext]_vars
  /\ \A a \in Attempts :
       /\ WF_vars(DataAtStop(a, 0))
       /\ WF_vars(\E thr \in Throws : StopEvent(a, thr))

\* The steps of playAssistantBase64.
PlayNext ==
  \/ PlayNotStarted
  \/ PlayCall
  \/ PlayResumeReject
  \/ PlayBase64Throws
  \/ PlayDecode
  \/ PlayDecodeReject
  \/ PlayAudioBuffer
  \/ PlaySourceStartThrows
  \/ PlayEnded

\* The instance with playback calls interleaved.
SpecPlay == Init /\ [][Next \/ PlayNext]_vars

\* The steps that bear on a session's duration, on a platform whose calls
\* succeed: start(), stop() and the events that answer it, cancel(), and the
\* clock advancing.
ClockNext ==
  \/ StartCall
  \/ \E a \in Attempts : GumResolve(a)
  \/ \E a \in Attempts : StartFinish(a)
  \/ \E thr \in {{}} : Cancel(thr)
  \/ StopRequest
  \/ \E a \in Attempts : DataAtStop(a, 0)
  \/ \E a \in Attempts, thr \in {{}} : StopEvent(a, thr)
  \/ \E a \in Attempts : StopEventUnhandled(a)
  \/ Tick

\* The instance with the clock advancing.
SpecClock == InitInBrowser /\ [][ClockNext]_vars

-----------------------------------------------------------------------------
(* src/lib/audio-bridge.ts *)

\* Lines 59-60, 64-65, 70-71, 33-39: an exported operation is called; it
\* calls getModule(), which suspends in import() of the first candidate.
BridgeCall(op) ==
  /\ bridgePc \in {"idle", "returned", "threw"}
  /\ bridgeCall' = op
  /\ candidate' = 1
  /\ bridgePc' = "import"
  /\ bridgeOut' = [kind |-> "none", detail |-> ""]
  /\ UNCHANGED << sessionRecorder, script, modules >>

\* Lines 42-48, 35-39: import() of a candidate rejects and the loop goes on
\* to the next candidate.
ImportFailsTryNext ==
  /\ bridgePc = "import"
  /\ ~modules[candidate].resolves
  /\ candidate < Len(ModuleCandidates)
  /\ candidate' = candidate + 1
  /\ UNCHANGED << sessionRecorder, script, modules, bridgeCall, bridgePc, bridgeOut >>

\* Lines 42-56: import() of the last candidate rejects; getModule() throws,
\* and so does the operation awaiting it.
ImportExhausted ==
  /\ bridgePc = "import"
  /\ ~modules[candidate].resolves
  /\ candidate = Len(ModuleCandidates)
  /\ bridgePc' = "threw"
  /\ bridgeOut' = [kind |-> "error", detail |-> HelpersUnavailable]
  /\ UNCHANGED << sessionRecorder, script, modules, bridgeCall, candidate >>

\* Lines 39-41, 61, 67, 72: import() resolves with a module that exports the
\* helper; the operation calls it and awaits its result.
ImportResolvesHelperCalled ==
  /\ bridgePc = "import"
  /\ modules[candidate].resolves
  /\ bridgeCall \in modules[candidate].exports
  /\ bridgePc' = "helper"
  /\ UNCHANGED << sessionRecorder, script, modules, bridgeCall, candidate, bridgeOut >>

\* Lines 61, 66, 72: import() resolves with a module that does not export
\* the helper: recordUntilSilence throws, calibrateRMS returns 0 and
\* blobToBase64 returns ''.
ImportResolvesHelperMissing ==
  /\ bridgePc = "import"
  /\ modules[candidate].resolves
  /\ bridgeCall \notin modules[candidate].exports
  /\ IF bridgeCall = "recordUntilSilence"
       THEN /\ bridgePc' = "threw"
            /\ bridgeOut' = [kind |-> "error", detail |-> RecordingUnavailable]
       ELSE /\ bridgePc' = "returned"
            /\ bridgeOut' = [kind |-> "value",
                             detail |-> IF bridgeCall = "calibrateRMS" THEN "0" ELSE "''"]
  /\ UNCHANGED << sessionRecorder, script, modules, bridgeCall, candidate >>

\* Lines 61, 67, 72: the helper's promise resolves and the operation returns
\* its value.
HelperResolves ==
  /\ bridgePc = "helper"
  /\ bridgePc' = "returned"
  /\ bridgeOut' = [kind |-> "value", detail |-> "helper result"]
  /\ UNCHANGED << sessionRecorder, script, modules, bridgeCall, candidate >>

\* Lines 61, 67, 72: the helper throws or its promise rejects, and the
\* operation fails with the helper's error.
HelperRejects ==
  /\ bridgePc = "helper"
  /\ bridgePc' = "threw"
  /\ bridgeOut' = [kind |-> "error", detail |-> "helper error"]
  /\ UNCHANGED << sessionRecorder, script, modules, bridgeCall, candidate >>

\* The steps of a bridge operation.
BridgeNext ==
  \/ \E op \in BridgeOps : BridgeCall(op)
  \/ ImportFailsTryNext
  \/ ImportExhausted
  \/ ImportResolvesHelperCalled
  \/ ImportResolvesHelperMissing
  \/ HelperResolves
  \/ HelperRejects

\* The bridge in any build.
InitAnyBuild ==
  /\ InstanceInitOn({WebmPlatform})
  /\ hasWindow
  /\ BridgeInitOn(Builds)
  /\ ScriptInitOn({AllValid})

SpecBridge == InitAnyBuild /\ [][BridgeNext]_vars

-----------------------------------------------------------------------------
(* src/scripts/create-pr.mjs *)

\* Lines 192-196: a step throws, main() rejects and the handler exits with
\* code 1.
Fails(step) ==
  /\ failedStep' = step
  /\ scriptPc' = "exited"
  /\ exitCode' = 1

\* Lines 28-49: requireEnv returns the value of a usable variable.
RequireEnv ==
  /\ scriptPc \in Range(RequiredEnv)
  /\ processEnv[scriptPc] = "valid"
  /\ executed' = Append(executed, scriptPc)
  /\ scriptPc' = StepAfter(scriptPc)
  /\ UNCHANGED << sessionRecorder, bridge, processEnv, failedStep, requests, existing, exitCode >>

\* Lines 30-46: requireEnv throws for a variable that is undefined, empty
\* after trimming, or a placeholder.
RequireEnvThrows ==
  /\ scriptPc \in Range(RequiredEnv)
  /\ processEnv[scriptPc] # "valid"
  /\ Fails(scriptPc)
  /\ UNCHANGED << sessionRecorder, bridge, processEnv, executed, requests, existing >>

\* Lines 51-62, 119-155: a git command succeeds; porcelain is what
\* git status printed.
RunCommand(porcelain) ==
  /\ scriptPc \in Range(GitSteps)
  /\ IF scriptPc = "git-status-check" /\ porcelain # ""
       THEN /\ Fails("git-status-check")
            /\ UNCHANGED executed
       ELSE /\ executed' = Append(executed, scriptPc)
            /\ scriptPc' = StepAfter(scriptPc)
            /\ UNCHANGED << failedStep, exitCode >>
  /\ UNCHANGED << sessionRecorder, bridge, processEnv, requests, existing >>

\* Lines 57-61, 140-144: a git command exits with an error; runCommand
\* rethrows, and so does the catch block of the ancestor check.
RunCommandFails ==
  /\ scriptPc \in Range(GitSteps)
  /\ Fails(scriptPc)
  /\ UNCHANGED << sessionRecorder, bridge, processEnv, executed, requests, existing >>

\* Lines 157-159, 64-81: after the push the list request is sent and main()
\* suspends in fetch.
ListRequest ==
  /\ scriptPc = "github-list-pr:request"
  /\ requests' = Append(requests, [method |-> "GET", pull |-> 0])
  /\ scriptPc' = "github-list-pr"
  /\ UNCHANGED << sessionRecorder, bridge, processEnv, executed, failedStep, existing, exitCode >>

\* Lines 91-101: fetch rejects or the response is not OK; request() throws.
RequestFails ==
  /\ scriptPc \in {"github-list-pr", "github-update-pr", "github-create-pr"}
  /\ Fails(scriptPc)
  /\ UNCHANGED << sessionRecorder, bridge, processEnv, executed, requests, existing >>

\* The mutating request always being the creation.
MutatingRequestAlwaysCreates(body) == [method |-> "POST", pull |-> 0]

\* Lines 160-181: the request that follows the list response: the update of
\* the first listed pull request, or the creation when the body is not a
\* non-empty array.
MutatingRequest(body) ==
  IF body.isArray /\ Len(body.pulls) > 0
    THEN [method |-> "PATCH", pull |-> body.pulls[1]]
    ELSE [method |-> "POST", pull |-> 0]

\* Lines 159-181: the list response is OK with the parsed body; the update
\* or the creation is sent and main() suspends in fetch.
ListResponds(body) ==
  /\ scriptPc = "github-list-pr"
  /\ existing' = body
  /\ executed' = Append(executed, "github-list-pr")
  /\ requests' = Append(requests, MutatingRequest(body))
  /\ scriptPc' = IF MutatingRequest(body).method = "PATCH"
                   THEN "github-update-pr" ELSE "github-create-pr"
  /\ UNCHANGED << sessionRecorder, bridge, processEnv, failedStep, exitCode >>

\* Lines 164-190: the update or the creation is answered OK; main() logs
\* 'complete' and the process ends with code 0.
MutationResponds ==
  /\ scriptPc \in {"github-update-pr", "github-create-pr"}
  /\ executed' = Append(executed, scriptPc)
  /\ scriptPc' = "exited"
  /\ exitCode' = 0
  /\ UNCHANGED << sessionRecorder, bridge, processEnv, failedStep, requests, existing >>

\* The steps of the script.
ScriptNext ==
  \/ RequireEnv
  \/ RequireEnvThrows
  \/ \E porcelain \in {"", " M file"} : RunCommand(porcelain)
  \/ RunCommandFails
  \/ ListRequest
  \/ RequestFails
  \/ \E body \in ListBodies : ListResponds(body)
  \/ MutationResponds

\* The script in any environment.
InitAnyEnvironment ==
  /\ InstanceInitOn({WebmPlatform})
  /\ hasWindow
  /\ BridgeInitOn({LegacyBuild})
  /\ ScriptInitOn(Environments)

SpecScript == InitAnyEnvironment /\ [][ScriptNext]_vars

-----------------------------------------------------------------------------

\* A new SessionRecorder on any platform.
InitAnyPlatform == InitOn(Platforms)

\* The steps that negotiate a format: start() up to the start of recording,
\* and cancel(), which lets a later start() negotiate again.
NegotiationNext ==
  \/ StartUnavailable
  \/ StartNoop
  \/ StartCall
  \/ \E a \in Attempts : GumResolve(a)
  \/ \E a \in Attempts : StartFinish(a)
  \/ \E a \in Attempts, thr \in Throws : EncoderStartThrows(a, thr)
  \/ \E thr \in Throws : Cancel(thr)

\* Format negotiation on every platform.
SpecMime == InitAnyPlatform /\ [][NegotiationNext]_vars

-----------------------------------------------------------------------------
(* The properties *)

\* The five owned handles are null.
HandlesNull ==
  /\ audioCtx = Null /\ destination = Null /\ micStream = Null
  /\ micSource = Null /\ recorder = Null

\* The track of attempt a's capture stream is still active.
TrackLive(a) == stream[a] /\ trackStops[a] = 0

\* Attempt a's AudioContext is still open.
CtxOpen(a) == ctx[a] /\ ctxCloses[a] = 0

\* What a call leaves alone when it does nothing but return.
instance == << fields, pcStart, teardownCounts, encoder >>

\* C1: whenever stop() has just returned a result or cancel() has just
\* returned, and whenever the promise of a stop() has been resolved, the
\* five handles are null and every session that reached Recording has had
\* its track stopped exactly once and its context closed exactly once.
C1_ReleaseExhaustive ==
  /\ (ret.op = "cancel" \/ (ret.op = "stop" /\ ret.out = "result")) =>
       /\ HandlesNull
       /\ \A a \in Attempts : pcStart[a] = "ok" => trackStops[a] = 1 /\ ctxCloses[a] = 1
  /\ \A a \in Attempts : promise[a] = "resolved" => trackStops[a] = 1 /\ ctxCloses[a] = 1

\* C2: once a start() call has rejected, no track its attempt obtained is
\* still active and no context its attempt created is still open.
C2_FailedStartReleases ==
  \A a \in Attempts : pcStart[a] = "failed" => ~TrackLive(a) /\ ~CtxOpen(a)

\* C3: at no time is more than one encoder of the instance recording, more
\* than one capture stream live, or more than one mixing context open.
C3_AtMostOneSession ==
  /\ Cardinality({a \in Attempts : rec[a] = "recording"}) <= 1
  /\ Cardinality({a \in Attempts : TrackLive(a)}) <= 1
  /\ Cardinality({a \in Attempts : CtxOpen(a)}) <= 1

C5_StopNeverRaisesAfterStart ==
  ((\E a \in Attempts : pcStart[a] = "ok") /\ ret.op = "stop") => ret.out # "NotStarted"

\* C6: a stop() call made while the instance holds an inactive encoder
\* returns, without raising, a result of duration 0 with no chunk, tagged
\* with the format negotiated for that encoder.
C6_StopInactiveEmpty ==
  [][ (recorder # Null /\ rec[recorder] = "inactive" /\ ret'.op = "stop")
      => /\ ret'.out = "result"
         /\ ret'.res = [chunks |-> << >>, mimeType |-> recMime[recorder], durationMs |-> 0] ]_vars

\* stop() has just returned the empty result on an inactive encoder whose
\* negotiated format is not the field's initial one.
C6_Witness ==
  /\ ret.op = "stop" /\ ret.out = "result"
  /\ recorder # Null /\ rec[recorder] = "inactive"
  /\ ret.res.mimeType = "audio/webm;codecs=opus"
  /\ ret.res.durationMs = 0

\* C7: a stop() call on an instance on which no start() call has got past
\* its guards throws 'Recorder not started', changes no field and reaches no
\* platform object.
C7_StopBeforeStart ==
  [][ ((\A a \in Attempts : pcStart[a] = "idle") /\ ret'.op = "stop")
      => (ret'.out = "NotStarted" /\ UNCHANGED << instance, playback >>) ]_vars

\* stop() has just thrown on a fresh instance in a browser.
C7_Witness ==
  /\ ret = Ret("stop", "NotStarted")
  /\ hasWindow
  /\ \A a \in Attempts : pcStart[a] = "idle"

\* C8: after cancel() returns and after a start() call fails, the five
\* handles are null; a start() call made with the handles null is not
\* treated as already recording and begins a new acquisition; and a start()
\* call whose every step succeeds leaves the instance recording on that
\* attempt's own, still active objects with an empty chunk list.
C8_Reusable ==
  [][ /\ ret'.op = "cancel" => HandlesNull'
      /\ (\E a \in Attempts : pcStart[a] # "failed" /\ pcStart'[a] = "failed") => HandlesNull'
      /\ (HandlesNull /\ hasWindow /\ ret'.op = "start") =>
           /\ ret'.out = "suspended"
           /\ \E a \in Attempts : pcStart[a] = "idle" /\ pcStart'[a] = "gum"
      /\ \A a \in Attempts : (pcStart[a] # "ok" /\ pcStart'[a] = "ok") =>
           /\ audioCtx' = a /\ destination' = a /\ micStream' = a
           /\ micSource' = a /\ recorder' = a
           /\ rec'[a] = "recording"
           /\ TrackLive(a)' /\ CtxOpen(a)'
           /\ chunks' = << >> ]_vars

\* The second attempt is recording with an empty chunk list after the first
\* session was released by cancel() (no stop() ever set its onstop).
C8_Witness ==
  /\ pcStart[1] = "ok" /\ ~onstop[1] /\ trackStops[1] = 1 /\ delivered[1] = 1
  /\ pcStart[2] = "ok" /\ recorder = 2 /\ rec[2] = "recording"
  /\ chunks = << >>

\* C9: every cancel() call returns normally and leaves the five handles
\* null, the chunk list empty and the start timestamp 0, whichever of its
\* steps throw.
C9_CancelAlwaysIdle ==
  [][ ret'.op = "cancel"
      => /\ ret'.out = "returned"
         /\ HandlesNull'
         /\ chunks' = << >>
         /\ startedAt' = 0 ]_vars

\* cancel() has just returned on an instance whose stop() was awaiting the
\* encoder's stop event.
C9_Witness ==
  /\ ret = Ret("cancel", "returned")
  /\ \E a \in Attempts : promise[a] = "pending" /\ trackStops[a] = 1 /\ ctxCloses[a] = 1

\* C10: whenever playAssistantBase64 reaches for the audio graph (at its
\* first check, at decodeAudioData after resume(), in playAudioBuffer after
\* the decode) and the graph is gone, the call fails with 'Recorder not
\* started' and starts no buffer source.
C10_PlayNotStarted ==
  [][ (NoGraph /\ ret'.op = "play"
         /\ ret'.out \notin {"PlatformOperationFailed", "Base64Failed"})
      => (ret'.out = "NotStarted" /\ sources' = sources) ]_vars

\* The candidates the platform reports as supported: accepted by a probe
\* that does not throw.
ReportedSupported == platform.supported \ platform.throws

\* The element of the priority list that comes first among those in S.
FirstInPriority(S) ==
  SUPPORTED_MIME_TYPES[CHOOSE i \in DOMAIN SUPPORTED_MIME_TYPES :
                         /\ SUPPORTED_MIME_TYPES[i] \in S
                         /\ \A j \in 1..(i - 1) : SUPPORTED_MIME_TYPES[j] \notin S]

\* C11: whatever subset of the four candidates the platform reports as
\* supported (a probe that throws counts as unsupported), a start() that
\* begins recording constructs the encoder with, and sets the session's mime
\* type to, the first element of the priority list in that subset; when the
\* subset is empty the start() can still complete, the encoder is
\* constructed without an explicit format, and the mime type is the
\* platform's default, or 'audio/webm' when the platform reports none.
C11_FormatNegotiation ==
  /\ [][ \A a \in Attempts :
          (pcStart[a] = "resume" /\ pcStart'[a] = "ok")
          => IF ReportedSupported # {}
               THEN /\ recOptions'[a] = FirstInPriority(ReportedSupported)
                    /\ mimeType' = FirstInPriority(ReportedSupported)
               ELSE /\ recOptions'[a] = ""
                    /\ mimeType' = IF platform.default # "" THEN platform.default
                                   ELSE "audio/webm" ]_vars
  /\ [](\A a \in Attempts :
          (pcStart[a] = "resume" /\ ReportedSupported = {}) => ENABLED StartFinish(a))

\* A session recording in the third candidate on a platform that accepts
\* all four and whose probe throws for the first two.
C11_Witness ==
  /\ platform.supported = Candidates
  /\ platform.throws = {"audio/webm;codecs=opus", "audio/webm"}
  /\ recorder # Null
  /\ rec[recorder] = "recording"
  /\ mimeType = "audio/ogg;codecs=opus"

\* The non-empty chunks attempt a's encoder has delivered, in delivery order.
DeliveredBy(a) == [i \in 1..delivered[a] |-> << a, i >>]

\* Every attempt other than a has not begun or has had its stream released:
\* the instance was used for one session after another.
OthersReleased(a) ==
  \A b \in Attempts \ {a} : pcStart[b] = "idle" \/ trackStops[b] >= 1

\* C12: when the finalize event of the session the instance holds resolves
\* that session's stop(), the result contains exactly the non-empty chunks
\* the session's own encoder delivered, in delivery order: none lost, none
\* duplicated, none from another session.  Stated for sessions used one
\* after another, each begun after the one before was released.
C12_ResultExactChunks ==
  [][ \A a \in Attempts :
        (/\ recorder = a
         /\ OthersReleased(a)
         /\ promise[a] = "pending"
         /\ promise'[a] = "resolved")
        => result'[a].chunks = DeliveredBy(a) ]_vars

\* Attempt a is the only session the instance has had, cancel() has released
\* it, and no stop() was requested on its encoder.
CancelledOnly(a) ==
  /\ pcStart[a] = "ok"
  /\ \A b \in Attempts \ {a} : pcStart[b] = "idle"
  /\ recorder = Null
  /\ trackStops[a] >= 1
  /\ ~onstop[a]

\* C13: no dataavailable event of a cancelled session's encoder, the final
\* chunk answering cancel()'s stop request included, is added to the
\* instance's chunk list.  Stated for the first session of an instance.
C13_CancelDiscards ==
  [][ \A a \in Attempts :
        (CancelledOnly(a) /\ delivered'[a] > delivered[a]) => chunks' = chunks ]_vars

\* C14: the duration in the result of a stop() resolved by the finalize
\* event of the session the instance holds is non-negative and is the
\* difference, rounded to a millisecond, between the clock reading when the
\* finalize event fires and the reading taken when recording began.
C14_Duration ==
  [][ \A a \in Attempts :
        (recorder = a /\ promise[a] = "pending" /\ promise'[a] = "resolved")
        => /\ result'[a].durationMs >= 0
           /\ 2 * result'[a].durationMs - (now - began[a]) \in {0, 1} ]_vars

\* A stop() resolved by a finalize event that fired half a millisecond after
\* recording began: the duration is rounded up to 1.
C14_Witness ==
  \E a \in Attempts :
    /\ promise[a] = "resolved"
    /\ began[a] = MaxClock - 1
    /\ now = MaxClock
    /\ result[a].durationMs = 1

\* The module getModule() returns: that of the first candidate that resolves.
NoneResolves == \A i \in DOMAIN ModuleCandidates : ~modules[i].resolves
ResolvedModule ==
  modules[CHOOSE i \in DOMAIN ModuleCandidates :
            modules[i].resolves /\ \A j \in 1..(i - 1) : ~modules[j].resolves]

\* C15: a bridge operation called when no candidate resolves, or when the
\* resolved module does not export the helper, ends by throwing one of the
\* bridge's descriptive errors; it never returns a value.
C15_BridgeFailsLoudly ==
  [][ (/\ bridgePc \notin {"returned", "threw"}
       /\ bridgePc' \in {"returned", "threw"}
       /\ (NoneResolves \/ bridgeCall \notin ResolvedModule.exports))
      => /\ bridgePc' = "threw"
         /\ bridgeOut'.detail \in {HelpersUnavailable, RecordingUnavailable} ]_vars

\* The steps that succeeded are the first steps of main(), in its order.
RanInOrder ==
  \A i \in DOMAIN executed : i <= Len(ScriptSteps) - 1 => executed[i] = ScriptSteps[i]

\* C16: every run of the script that sends a request sends the list request
\* first, after the environment was validated and every git command up to
\* the push of HEAD succeeded; it then sends at most one more request, the
\* PATCH of the first listed pull request when the list is not empty and the
\* POST otherwise, and a run that completes has sent exactly one of them.
\* A step that fails ends the run with exit code 1, and nothing runs after.
C16_ScriptOrder ==
  /\ [](/\ RanInOrder
        /\ requests # << >>
           => /\ requests[1].method = "GET"
              /\ Len(executed) >= Len(ScriptSteps) - 1
              /\ executed[Len(ScriptSteps) - 1] = "git-push-head"
        /\ Len(requests) <= 2
        /\ Len(requests) = 2
           => /\ "github-list-pr" \in Range(executed)
              /\ IF existing.isArray /\ existing.pulls # << >>
                   THEN requests[2] = [method |-> "PATCH", pull |-> Head(existing.pulls)]
                   ELSE requests[2] = [method |-> "POST", pull |-> 0]
        /\ exitCode = 0 => (Len(requests) = 2 /\ failedStep = "")
        /\ failedStep # "" => (exitCode = 1 /\ failedStep \notin Range(executed)))
  /\ [][ (failedStep # "" \/ exitCode # -1) => UNCHANGED script ]_vars
  /\ [][ failedStep' # failedStep => (exitCode' = 1 /\ failedStep' = scriptPc) ]_vars

\* A completed run that updated the first of two listed pull requests.
C16_Witness ==
  /\ exitCode = 0
  /\ existing.isArray
  /\ Len(existing.pulls) = 2
  /\ requests = << [method |-> "GET", pull |-> 0],
                   [method |-> "PATCH", pull |-> Head(existing.pulls)] >>

\* C17: a stop() whose stop request the encoder accepted stays pending until
\* that encoder's stop event fires, is resolved by that event, keeps the
\* value it was resolved with, and, on a platform that delivers the event,
\* is eventually resolved, whatever is called while it is pending.
C17_StopAwaitsFinalize ==
  /\ [][ \A a \in Attempts :
           /\ promise[a] = "pending"
              => \/ promise'[a] = "pending"
                 \/ (promise'[a] = "resolved" /\ recQ[a] = "stop" /\ recQ'[a] = "done")
           /\ promise[a] = "resolved"
              => (promise'[a] = "resolved" /\ result'[a] = result[a]) ]_vars
  /\ \A a \in Attempts : (promise[a] = "pending") ~> (promise[a] = "resolved")

\* cancel() has just returned while a stop() is pending.
C17_Witness ==
  \E a \in Attempts :
    /\ promise[a] = "pending"
    /\ ret = Ret("cancel", "returned")

\* A start() call is suspended in getUserMedia or in ctx.resume().
InFlight(a) == pcStart[a] \in {"gum", "resume"}

\* C18: cancel() does not abort a start() in flight: it leaves every start()
\* call where it is suspended and changes no encoder but an active one the
\* instance holds; the suspended start() can still go on, and when it
\* completes the instance is recording with the handles of that start(),
\* although cancel() has returned.
C18_CancelCooperative ==
  /\ [][ ret'.op = "cancel"
         => /\ pcStart' = pcStart
            /\ UNCHANGED << stream, ctx >>
            /\ \A a \in Attempts :
                 rec'[a] # rec[a] => (a = recorder /\ rec[a] = "recording") ]_vars
  /\ [](\A a \in Attempts :
          /\ pcStart[a] = "gum" => ENABLED GumResolve(a)
          /\ pcStart[a] = "resume" => ENABLED StartFinish(a))
  /\ [][ \A a \in Attempts :
           (pcStart[a] = "resume" /\ pcStart'[a] = "ok")
           => /\ audioCtx' = a /\ destination' = a /\ micStream' = a
              /\ micSource' = a /\ recorder' = a
              /\ rec'[a] = "recording" ]_vars

\* cancel() has just returned while a start() is suspended in ctx.resume().
C18_Witness ==
  /\ ret = Ret("cancel", "returned")
  /\ \E a \in Attempts : pcStart[a] = "resume"

\* C19: the stop event of an earlier session's encoder, handled while the
\* instance holds a later session, leaves the later session alone: it stops
\* no track, closes no context, changes none of the instance's fields, and
\* builds its result from no chunk but its own encoder's.
C19_StaleFinalizeHarmless ==
  [][ \A a \in Attempts :
        (/\ recQ[a] = "stop" /\ recQ'[a] = "done" /\ onstop[a]
         /\ recorder # Null /\ recorder # a)
        => /\ UNCHANGED << fields, trackStops, ctxCloses >>
           /\ \A i \in DOMAIN result'[a].chunks : result'[a].chunks[i][1] = a ]_vars

\* C20: between any two steps the five handles are all null or all those of
\* one start() attempt, and while they are null the chunk list is empty and
\* the start timestamp is 0.
C20_HandlesAllOrNothing ==
  /\ \/ HandlesNull
     \/ \E a \in Attempts :
          /\ audioCtx = a /\ destination = a /\ micStream = a
          /\ micSource = a /\ recorder = a
  /\ HandlesNull => (chunks = << >> /\ startedAt = 0)

=============================================================================
